---- MODULE Spec2Model ----
(***************************************************************************)
(* nuu-dictate: the recording state machine of AudioRecorder (audio.py)    *)
(* driven by the hotkey handler and the coroutines of VoiceToTextApp       *)
(* (app.py).                                                               *)
(*                                                                         *)
(* Three threads of control act on the recorder's fields:                  *)
(*   - the pynput hotkey thread, running _on_hotkey;                       *)
(*   - the asyncio event loop thread, running the _start_recording and     *)
(*     _stop_recording coroutines; start_recording and stop_recording are  *)
(*     synchronous calls on that thread, one statement per step here;      *)
(*   - the capture threads, running _record_audio.                         *)
(* The feedback sounds run in the default thread-pool executor, so the     *)
(* awaits of several coroutines complete in any order.                     *)
(* _process_recording (transcription.py, clipboard.py) runs on the loop     *)
(* thread between its awaits; the backend request, the transcript write,   *)
(* the copy and the paste keystroke each run on an executor thread.        *)
(***************************************************************************)
EXTENDS Integers, Sequences, FiniteSets, TLC

\* ---------------------------------------------------------------- bounds
MaxTriggers == 3     \* hotkey presses in one run
MaxSessions == 2     \* streams the device opens in one run
MaxChunks == 2       \* chunks one stream delivers
MaxTime == 1         \* seconds the wall clock advances
ChunkSize == 1       \* frames per read (audio_chunk_size, scaled down)
MaxLen == 2          \* buffer length drawn for the serializer alone
MaxByte == 1         \* byte values drawn for the serializer alone
MaxText == 2         \* characters of the text the backend returns

\* ------------------------------------------------------ program constants
DefaultChannels == 1
DefaultSampleRate == 44100
OtherSampleRate == 16000

audio_format == "paInt16"

VARIABLES
    recording,          \* AudioRecorder.recording
    audio_frames,       \* AudioRecorder.audio_frames: sequence of byte strings
    audio_stream,       \* AudioRecorder.audio_stream: a stream id, 0 is None
    recording_thread,   \* AudioRecorder.recording_thread: a thread id, 0 is None
    stream,             \* the device's streams: "none", "open", "stopped", "closed"
    nopen,              \* streams opened so far; stream nopen is the latest session's
    delivered,          \* chunks each stream has delivered to a read
    thread,             \* the capture threads, one per session
    tasks,              \* the coroutines scheduled on the event loop, by trigger
    last,               \* the latest start_recording / stop_recording call that returned
    prev,               \* the call that returned before it
    triggers,           \* hotkey presses so far
    cur,                \* the coroutine whose synchronous call the loop thread runs
    loop_pc,            \* where the loop thread is inside that call
    files,              \* the recordings folder: timestamp -> WAV file
    now,                \* the wall clock, in seconds
    config,             \* the Config values the recorder reads
    hotkey_listener,    \* VoiceToTextApp.hotkey_listener
    running,            \* VoiceToTextApp.running
    loop,               \* VoiceToTextApp.loop
    client,             \* TranscriptionService.client is set (an API key was configured)
    answer,             \* the text the backend returns for a recording when it answers
    linesep,            \* the platform's line separator, as text-mode writes emit it
    jobs,               \* _process_recording of each stop coroutine, by trigger
    txt,                \* the recordings folder: timestamp -> transcript file
    clipboard,          \* the system clipboard
    audio,              \* AudioRecorder.audio, the PyAudio instance: "none", "open", "terminated"
    main_pc,            \* where cli.main is: "start", "validate", "construct", "run", "exited"
    exit_status,        \* the status the process exited with, -1 while it runs
    validate_config,    \* args.validate_config
    api_key,            \* OPENAI_API_KEY in the environment: "unset", "empty", "set"
    folder,             \* the recordings folder: "exists", "creatable", "blocked"
    valid,              \* what the latest Config.validate() gave, "none" before any
    run_error,          \* the error VoiceToTextApp.run logged, "none" if it logged none
    processing,         \* main.py: the process_recording thread each stop started
    seen                \* what each setting was when last read through the Config object

recorder == <<recording, audio_frames, audio_stream, recording_thread>>
device == <<stream, nopen, delivered>>
process == <<audio, main_pc, exit_status, validate_config, api_key, folder, valid,
             run_error, processing, seen>>
app == <<hotkey_listener, running, loop, audio, main_pc, exit_status,
         validate_config, api_key, folder, valid, run_error, processing, seen>>
calls == <<tasks, last, prev>>
pipeline == <<client, answer, linesep, jobs, txt, clipboard>>
vars == <<recording, audio_frames, audio_stream, recording_thread, stream, nopen,
          delivered, thread, tasks, last, prev, triggers, cur, loop_pc, files,
          now, config, hotkey_listener, running, loop, client, answer, linesep,
          jobs, txt, clipboard, audio, main_pc, exit_status, validate_config,
          api_key, folder, valid, run_error, processing, seen>>

Sessions == 1..MaxSessions
\* one press more than MaxTriggers is made by the patient user of SpecPatient
Triggers == 1..(MaxTriggers + 1)
Times == 0..MaxTime

NoFile == [nchannels |-> 0, sampwidth |-> 0, framerate |-> 0, nframes |-> 0,
           frames |-> <<>>]
NoTask == [kind |-> "none", pc |-> "none", after |-> 0, during |-> 0]
DoneTask == [NoTask EXCEPT !.pc = "done"]
NoCall == [kind |-> "none", ret |-> "none", path |-> -1, log |-> "",
           after |-> 0, during |-> 0]
NoThread == [pc |-> "idle", on |-> 0, data |-> <<>>]

\* the settings read through the Config object while the application runs
Settings == {"audio_channels", "audio_sample_rate", "audio_chunk_size"}

\* a process_recording thread of main.py: where it is, the stream of the
\* recording it was started for, the number of chunks the buffer held when
\* stop_recording started it, and the path it wrote
NoProc == [pc |-> "none", session |-> 0, nstop |-> 0, path |-> -1]

\* An Optional[str] is a sequence of at most one text: <<>> is None, <<t>> is t.
\* A text is a sequence of characters; a transcript file is an optional text,
\* <<>> where the file does not exist.
Chars == {"h", "\n"}
Texts == UNION {[1..n -> Chars] : n \in 0..MaxText}
LF == <<"\n">>
CRLF == <<"\r", "\n">>
Hello == <<"h", "\n">>

\* _process_recording of one stop coroutine: where it is, the audio path it
\* was given, the calls it has made and what they gave
\*   requests: calls of client.audio.transcriptions.create
\*   resp:     what _transcribe_sync returned
\*   wrote:    the outcome of _write_text_file
\*   returned, ret: transcribe_audio has returned, and what
\*   copy, paste: the outcome of pyperclip.copy and of pyautogui.hotkey
\*   out:      what copy_and_paste returned
NoJob == [pc |-> "none", path |-> -1, requests |-> 0, resp |-> <<>>,
          wrote |-> "none", returned |-> FALSE, ret |-> <<>>,
          copy |-> "none", paste |-> "none", out |-> "none"]

\* ------------------------------------------------------------- functions

\* pyaudio.get_sample_size: bytes per sample of a sample format
get_sample_size(format) ==
    CASE format = "paInt8" -> 1
      [] format = "paInt16" -> 2
      [] format = "paInt24" -> 3
      [] format = "paInt32" -> 4
      [] format = "paFloat32" -> 4

\* Stream.read(chunk_size): the k-th buffer of stream s, chunk_size frames of
\* channels samples of 16 bits; its bytes name the stream and the position
ReadChunk(s, k, cfg) ==
    [j \in 1..(cfg.audio_chunk_size * cfg.audio_channels * get_sample_size(audio_format))
        |-> IF j % 2 = 1 THEN s ELSE k]

\* the chunks joined last to first
RECURSIVE JoinReversed(_)
JoinReversed(frames) ==
    IF frames = <<>> THEN <<>> ELSE JoinReversed(Tail(frames)) \o Head(frames)

\* b''.join(frames)
RECURSIVE Join(_)
Join(frames) ==
    IF frames = <<>> THEN <<>> ELSE Head(frames) \o Join(Tail(frames))

\* the WAV that wave.open(...,'wb') holds after the with block of _save_audio_file
SaveAudioFile(frames, cfg) ==
    LET data == Join(frames)
        width == get_sample_size(audio_format)
    IN [nchannels |-> cfg.audio_channels,
        sampwidth |-> width,
        framerate |-> cfg.audio_sample_rate,
        nframes |-> Len(data) \div (width * cfg.audio_channels),
        frames |-> data]

\* TextIOWrapper.write of a file opened with open(path, 'w'): newline is None,
\* so every "\n" of the text goes to disk as os.linesep
RECURSIVE WriteText(_, _)
WriteText(t, sep) ==
    IF t = <<>> THEN <<>>
    ELSE (IF Head(t) = "\n" THEN sep ELSE <<Head(t)>>) \o WriteText(Tail(t), sep)

\* TextIOWrapper.read of a file opened with open(path, 'r'): universal
\* newlines, "\r\n" and a lone "\r" are read as "\n"
RECURSIVE ReadText(_)
ReadText(c) ==
    IF c = <<>> THEN <<>>
    ELSE IF Head(c) = "\r"
           THEN IF Len(c) > 1 /\ c[2] = "\n"
                  THEN <<"\n">> \o ReadText(Tail(Tail(c)))
                  ELSE <<"\n">> \o ReadText(Tail(c))
           ELSE <<Head(c)>> \o ReadText(Tail(c))

\* if transcript is not None: -- the empty string taken for a result
TruthyNotNone(opt) == opt # <<>>

\* if transcript: -- None and the empty string are both falsy
Truthy(opt) == opt # <<>> /\ opt[1] # <<>>

Alive(t) == thread[t].pc \notin {"idle", "done"}

InFlight(i) == tasks[i].pc \in {"scheduled", "ready", "running"}

\* the earliest trigger whose coroutine has not completed its call, 0 if none
EarliestInFlight ==
    IF \E j \in Triggers : InFlight(j)
      THEN CHOOSE j \in Triggers :
              InFlight(j) /\ \A k \in Triggers : InFlight(k) => j <= k
      ELSE 0

StopStates == {"stop_stream", "stop_close", "stop_clear", "stop_join", "stop_save"}

\* ------------------------------------------------------------------ Init

DefaultConfig == [audio_channels |-> DefaultChannels,
                  audio_sample_rate |-> DefaultSampleRate,
                  audio_chunk_size |-> ChunkSize]

InitRecorder ==
    /\ recording = FALSE
    /\ audio_frames = <<>>
    /\ audio_stream = 0
    /\ recording_thread = 0
    /\ stream = [s \in Sessions |-> "none"]
    /\ nopen = 0
    /\ delivered = [s \in Sessions |-> 0]
    /\ thread = [t \in Sessions |-> NoThread]
    /\ files = [p \in Times |-> NoFile]
    /\ now = 0

\* TranscriptionService.__init__ with a key configured (Config.validate has
\* passed before the listener starts), no transcript written yet
InitPipeline ==
    /\ client = TRUE
    /\ answer = Hello
    /\ linesep = LF
    /\ jobs = [i \in Triggers |-> NoJob]
    /\ txt = [p \in Times |-> <<>>]
    /\ clipboard = <<>>

\* cli.main has built a valid Config and the application, and is about to
\* call asyncio.run(app.run())
InitProcess ==
    /\ audio = "open"
    /\ main_pc = "run"
    /\ exit_status = -1
    /\ validate_config = FALSE
    /\ api_key = "set"
    /\ folder = "exists"
    /\ valid = "none"
    /\ run_error = "none"
    /\ processing = [i \in Triggers |-> NoProc]
    /\ seen = [k \in Settings |-> <<>>]

\* Config.validate without its test of the API key
ValidateNoKeyCheck(key, fold) ==
    IF fold = "blocked" THEN "raise" ELSE "True"

\* Config.validate: False without an API key; else the recordings_folder
\* property makes the folder (mkdir raises where it cannot) and the folder,
\* once made, exists
Validate(key, fold) ==
    IF key \in {"unset", "empty"} THEN "False"
    ELSE IF fold = "blocked" THEN "raise"
    ELSE "True"

\* the folder after Config.validate: made, where the property was evaluated
\* and could make it
FolderAfter(key, fold) ==
    IF key = "set" /\ fold = "creatable" THEN "exists" ELSE fold

\* the positions of cli.main after the process has exited: sys.exit(0) and
\* sys.exit(1) of the validate-only mode, the two except branches, and the
\* end of main after asyncio.run has returned
ExitStates == {"exit_valid", "exit_invalid", "exit_interrupted", "exit_error",
               "exit_returned"}

Init ==
    /\ InitRecorder
    /\ InitPipeline
    /\ tasks = [i \in Triggers |-> NoTask]
    /\ last = NoCall
    /\ prev = NoCall
    /\ triggers = 0
    /\ cur = 0
    /\ loop_pc = "idle"
    /\ config = DefaultConfig
    /\ hotkey_listener = "none"
    /\ running = FALSE
    /\ loop = "none"
    /\ InitProcess

\* ------------------------------------------------------------ app.py

\* VoiceToTextApp.run up to its main loop, the configuration being valid
Run ==
    /\ main_pc = "run"
    /\ loop = "none"
    /\ Validate(api_key, folder) = "True"
    /\ valid' = "True"
    /\ folder' = FolderAfter(api_key, folder)
    /\ loop' = "running"
    /\ hotkey_listener' = "started"
    /\ running' = TRUE
    /\ UNCHANGED <<recorder, device, thread, calls, triggers, cur, loop_pc, files,
                   now, config, pipeline>>
    /\ UNCHANGED <<audio, main_pc, exit_status, validate_config, api_key, run_error,
                   processing, seen>>

\* _on_hotkey toggling the recorder itself, on the hotkey thread
PressInline(limit) ==
    /\ hotkey_listener = "started"
    /\ triggers < limit
    /\ triggers' = triggers + 1
    /\ recording' = ~recording
    /\ UNCHANGED <<audio_frames, audio_stream, recording_thread>>
    /\ UNCHANGED <<device, thread, calls, cur, loop_pc, files, now, config, app,
                   pipeline>>

\* VoiceToTextApp._on_hotkey, on the hotkey thread, for at most limit presses
Press(limit) ==
    /\ hotkey_listener = "started"
    /\ triggers < limit
    /\ triggers' = triggers + 1
    /\ IF loop = "running"
         THEN tasks' = [tasks EXCEPT ![triggers + 1] =
                [NoTask EXCEPT
                    !.kind = IF recording THEN "stop" ELSE "start",
                    !.pc = "scheduled",
                    !.after = EarliestInFlight,
                    !.during = IF loop_pc \in StopStates THEN cur ELSE 0]]
         ELSE UNCHANGED tasks
    /\ UNCHANGED <<last, prev>>
    /\ UNCHANGED <<recorder, device, thread, cur, loop_pc, files, now, config, app, pipeline>>

\* the hotkey is pressed, at any moment
OnHotkey == Press(MaxTriggers)

\* the hotkey is pressed by a user who waits until every earlier press has
\* had its effect
OnHotkeyPatient ==
    /\ \A j \in Triggers : ~InFlight(j)
    /\ Press(MaxTriggers + 1)

\* the hotkey is pressed while no earlier press still awaits its
\* start_recording or stop_recording call; the processing of an earlier
\* recording may be under way
OnHotkeySettled ==
    /\ \A j \in Triggers : ~InFlight(j)
    /\ Press(MaxTriggers)

\* _start_recording / _stop_recording up to the end of their await: the loop
\* thread starts the coroutine, which hands the sound to the executor
\* (AudioFeedback.play_start_sound / play_stop_sound) and is resumable once
\* the sound has played; a sound that raises is caught and logged inside
\* play_start_sound / play_stop_sound, and the coroutine resumes all the same
PlaySound(i) ==
    /\ loop_pc = "idle"
    /\ tasks[i].pc = "scheduled"
    /\ tasks' = [tasks EXCEPT ![i].pc = "ready"]
    /\ UNCHANGED <<last, prev>>
    /\ UNCHANGED <<recorder, device, thread, triggers, cur, loop_pc, files, now,
                   config, app, pipeline>>

\* start_recording / stop_recording called by coroutine i returns ret, having
\* logged log; the coroutine has nothing left to do on the recorder
Returned(i, ret, path, log) ==
    /\ tasks' = IF i \in Triggers THEN [tasks EXCEPT ![i] = DoneTask] ELSE tasks
    /\ prev' = last
    /\ last' = IF i \in Triggers
                 THEN [kind |-> tasks[i].kind, ret |-> ret, path |-> path,
                       log |-> log, after |-> tasks[i].after,
                       during |-> tasks[i].during]
                 ELSE [kind |-> "cleanup", ret |-> ret, path |-> path,
                       log |-> log, after |-> 0, during |-> 0]

\* the return of the call the loop thread is inside: a coroutine's call, or
\* with cur = 0 the stop_recording call of AudioRecorder.cleanup
Return(ret, path, log) ==
    /\ Returned(cur, ret, path, log)
    /\ cur' = 0
    /\ loop_pc' = IF cur \in Triggers THEN "idle" ELSE "cleanup_terminate"

\* ------------------------------------------------ audio.py: start_recording

\* start_recording without its check of self.recording
StartCheckUnguarded(i) ==
    /\ loop_pc = "idle"
    /\ tasks[i].pc = "ready"
    /\ tasks[i].kind = "start"
    /\ recording' = TRUE
    /\ cur' = i
    /\ loop_pc' = "start_clear"
    /\ tasks' = [tasks EXCEPT ![i].pc = "running"]
    /\ UNCHANGED <<last, prev>>
    /\ UNCHANGED <<audio_frames, audio_stream, recording_thread>>
    /\ UNCHANGED <<device, thread, triggers, files, now, config, app, pipeline>>

\* the coroutine resumes after the sound and calls start_recording:
\* if self.recording: return False; self.recording = True
StartCheck(i) ==
    /\ loop_pc = "idle"
    /\ tasks[i].pc = "ready"
    /\ tasks[i].kind = "start"
    /\ IF recording
         THEN /\ Returned(i, "False", -1, "Recording already in progress")
              /\ UNCHANGED <<recording, cur, loop_pc>>
         ELSE /\ recording' = TRUE
              /\ cur' = i
              /\ loop_pc' = "start_clear"
              /\ tasks' = [tasks EXCEPT ![i].pc = "running"]
              /\ UNCHANGED <<last, prev>>
    /\ UNCHANGED <<audio_frames, audio_stream, recording_thread>>
    /\ UNCHANGED <<device, thread, triggers, files, now, config, app, pipeline>>

\* self.audio_frames = []
StartClear ==
    /\ loop_pc = "start_clear"
    /\ audio_frames' = <<>>
    /\ loop_pc' = "start_open"
    /\ UNCHANGED <<recording, audio_stream, recording_thread>>
    /\ UNCHANGED <<device, thread, calls, triggers, cur, files, now, config, app, pipeline>>

\* start_recording whose except branch leaves self.recording set
StartOpenKeepsFlag ==
    /\ loop_pc = "start_open"
    /\ \/ /\ nopen < MaxSessions
          /\ nopen' = nopen + 1
          /\ stream' = [stream EXCEPT ![nopen + 1] = "open"]
          /\ audio_stream' = nopen + 1
          /\ loop_pc' = "start_thread"
          /\ UNCHANGED <<recording, calls, cur>>
       \/ /\ Return("False", -1, "Failed to start recording")
          /\ UNCHANGED <<recording, audio_stream, stream, nopen>>
    /\ UNCHANGED <<audio_frames, recording_thread, delivered>>
    /\ UNCHANGED <<thread, triggers, files, now, config, app, pipeline>>

\* self.audio_stream = self.audio.open(...), or the except branch; a PyAudio
\* that has been terminated opens nothing
StartOpen ==
    /\ loop_pc = "start_open"
    /\ \/ /\ audio = "open"
          /\ nopen < MaxSessions
          /\ nopen' = nopen + 1
          /\ stream' = [stream EXCEPT ![nopen + 1] = "open"]
          /\ audio_stream' = nopen + 1
          /\ loop_pc' = "start_thread"
          /\ UNCHANGED <<recording, calls, cur>>
       \/ /\ recording' = FALSE
          /\ Return("False", -1, "Failed to start recording")
          /\ UNCHANGED <<audio_stream, stream, nopen>>
    /\ UNCHANGED <<audio_frames, recording_thread, delivered>>
    /\ UNCHANGED <<thread, triggers, files, now, config, app, pipeline>>

\* self.recording_thread = threading.Thread(...); start(); return True
StartThread ==
    /\ loop_pc = "start_thread"
    /\ recording_thread' = nopen
    /\ thread' = [thread EXCEPT ![nopen] = [NoThread EXCEPT !.pc = "check"]]
    /\ Return("True", -1, "Recording started")
    /\ UNCHANGED <<recording, audio_frames, audio_stream>>
    /\ UNCHANGED <<device, triggers, files, now, config, app, pipeline>>

\* ------------------------------------------------- audio.py: stop_recording

\* stop_recording without its check of self.recording
StopCheckUnguarded(i) ==
    /\ loop_pc = "idle"
    /\ tasks[i].pc = "ready"
    /\ tasks[i].kind = "stop"
    /\ recording' = FALSE
    /\ cur' = i
    /\ loop_pc' = "stop_stream"
    /\ tasks' = [tasks EXCEPT ![i].pc = "running"]
    /\ UNCHANGED <<last, prev>>
    /\ UNCHANGED <<audio_frames, audio_stream, recording_thread>>
    /\ UNCHANGED <<device, thread, triggers, files, now, config, app, pipeline>>

\* _stop_recording calling stop_recording without awaiting the stop sound
StopCheckNoSound(i) ==
    /\ loop_pc = "idle"
    /\ tasks[i].pc \in {"scheduled", "ready"}
    /\ tasks[i].kind = "stop"
    /\ IF ~recording
         THEN /\ Returned(i, "None", -1, "No recording in progress")
              /\ UNCHANGED <<recording, cur, loop_pc>>
         ELSE /\ recording' = FALSE
              /\ cur' = i
              /\ loop_pc' = "stop_stream"
              /\ tasks' = [tasks EXCEPT ![i].pc = "running"]
              /\ UNCHANGED <<last, prev>>
    /\ UNCHANGED <<audio_frames, audio_stream, recording_thread>>
    /\ UNCHANGED <<device, thread, triggers, files, now, config, app, pipeline>>

\* the coroutine resumes after the sound and calls stop_recording:
\* if not self.recording: return None; self.recording = False
StopCheck(i) ==
    /\ loop_pc = "idle"
    /\ tasks[i].pc = "ready"
    /\ tasks[i].kind = "stop"
    /\ IF ~recording
         THEN /\ Returned(i, "None", -1, "No recording in progress")
              /\ UNCHANGED <<recording, cur, loop_pc>>
         ELSE /\ recording' = FALSE
              /\ cur' = i
              /\ loop_pc' = "stop_stream"
              /\ tasks' = [tasks EXCEPT ![i].pc = "running"]
              /\ UNCHANGED <<last, prev>>
    /\ UNCHANGED <<audio_frames, audio_stream, recording_thread>>
    /\ UNCHANGED <<device, thread, triggers, files, now, config, app, pipeline>>

\* if self.audio_stream: self.audio_stream.stop_stream(), or the except branch
StopStream ==
    /\ loop_pc = "stop_stream"
    /\ IF audio_stream = 0
         THEN /\ loop_pc' = "stop_join"
              /\ UNCHANGED <<stream, calls, cur>>
         ELSE \/ /\ stream' = [stream EXCEPT ![audio_stream] = "stopped"]
                 /\ loop_pc' = "stop_close"
                 /\ UNCHANGED <<calls, cur>>
              \/ /\ Return("None", -1, "Failed to stop recording")
                 /\ UNCHANGED stream
    /\ UNCHANGED <<recorder, nopen, delivered>>
    /\ UNCHANGED <<thread, triggers, files, now, config, app, pipeline>>

\* self.audio_stream.close(), or the except branch
StopClose ==
    /\ loop_pc = "stop_close"
    /\ \/ /\ stream' = [stream EXCEPT ![audio_stream] = "closed"]
          /\ loop_pc' = "stop_clear"
          /\ UNCHANGED <<calls, cur>>
       \/ /\ Return("None", -1, "Failed to stop recording")
          /\ UNCHANGED stream
    /\ UNCHANGED <<recorder, nopen, delivered>>
    /\ UNCHANGED <<thread, triggers, files, now, config, app, pipeline>>

\* self.audio_stream = None
StopClear ==
    /\ loop_pc = "stop_clear"
    /\ audio_stream' = 0
    /\ loop_pc' = "stop_join"
    /\ UNCHANGED <<recording, audio_frames, recording_thread>>
    /\ UNCHANGED <<device, thread, calls, triggers, cur, files, now, config, app, pipeline>>

\* if self.recording_thread: self.recording_thread.join(); ... = None
StopJoin ==
    /\ loop_pc = "stop_join"
    /\ IF recording_thread = 0
         THEN UNCHANGED recording_thread
         ELSE /\ thread[recording_thread].pc = "done"
              /\ recording_thread' = 0
    /\ loop_pc' = "stop_save"
    /\ UNCHANGED <<recording, audio_frames, audio_stream>>
    /\ UNCHANGED <<device, thread, calls, triggers, cur, files, now, config, app, pipeline>>

\* stop_recording saving whatever the buffer holds
StopSaveAlways ==
    /\ loop_pc = "stop_save"
    /\ \/ /\ files' = [files EXCEPT ![now] = SaveAudioFile(audio_frames, config)]
          /\ Return("Path", now, "Recording stopped and saved")
       \/ /\ Return("None", -1, "Failed to stop recording")
          /\ UNCHANGED files
    /\ UNCHANGED <<recorder, device, thread, triggers, now, config, app, pipeline>>

\* if self.audio_frames: return self._save_audio_file(); else: return None;
\* or the except branch when the file cannot be written
StopSave ==
    /\ loop_pc = "stop_save"
    /\ IF audio_frames = <<>>
         THEN /\ Return("None", -1, "No audio data recorded")
              /\ UNCHANGED files
         ELSE \/ /\ files' = [files EXCEPT ![now] = SaveAudioFile(audio_frames, config)]
                 /\ Return("Path", now, "Recording stopped and saved")
              \/ /\ Return("None", -1, "Failed to stop recording")
                 /\ UNCHANGED files
    /\ UNCHANGED <<recorder, device, thread, triggers, now, config, app, pipeline>>

\* -------------------------------------------------- audio.py: _record_audio

\* while self.recording and self.audio_stream:
RecordCheck(t) ==
    /\ thread[t].pc = "check"
    /\ thread' = [thread EXCEPT ![t].pc =
            IF recording /\ audio_stream # 0 THEN "read" ELSE "done"]
    /\ UNCHANGED <<recorder, device, calls, triggers, cur, loop_pc, files, now,
                   config, app, pipeline>>

\* self.audio_stream.read(...) is called: on None the attribute lookup raises,
\* on a stream that is stopped or closed the call raises, and the loop breaks
RecordRead(t) ==
    /\ thread[t].pc = "read"
    /\ IF audio_stream # 0 /\ stream[audio_stream] = "open"
         THEN thread' = [thread EXCEPT ![t].pc = "reading", ![t].on = audio_stream]
         ELSE thread' = [thread EXCEPT ![t].pc = "done"]
    /\ UNCHANGED <<recorder, device, calls, triggers, cur, loop_pc, files, now,
                   config, app, pipeline>>

\* _record_audio without its except: a read that raises ends the thread with
\* the exception
RecordReadReturnUncaught(t) ==
    /\ thread[t].pc = "reading"
    /\ \/ /\ delivered[thread[t].on] < MaxChunks
          /\ delivered' = [delivered EXCEPT ![thread[t].on] = @ + 1]
          /\ thread' = [thread EXCEPT ![t].pc = "append",
                  ![t].data = ReadChunk(thread[t].on, delivered[thread[t].on] + 1,
                                        config)]
       \/ /\ thread' = [thread EXCEPT ![t].pc = "raised", ![t].on = 0]
          /\ UNCHANGED delivered
    /\ UNCHANGED <<recorder, stream, nopen, calls, triggers, cur, loop_pc, files,
                   now, config, app, pipeline>>

\* a read that blocks for ever once its stream is no longer open
RecordReadReturnBlocks(t) ==
    /\ thread[t].pc = "reading"
    /\ stream[thread[t].on] = "open"
    /\ \/ /\ delivered[thread[t].on] < MaxChunks
          /\ delivered' = [delivered EXCEPT ![thread[t].on] = @ + 1]
          /\ thread' = [thread EXCEPT ![t].pc = "append",
                  ![t].data = ReadChunk(thread[t].on, delivered[thread[t].on] + 1,
                                        config)]
       \/ /\ thread' = [thread EXCEPT ![t].pc = "done", ![t].on = 0]
          /\ UNCHANGED delivered
    /\ UNCHANGED <<recorder, stream, nopen, calls, triggers, cur, loop_pc, files,
                   now, config, app, pipeline>>

\* the blocking read returns a buffer or raises (a device error, or the stream
\* was stopped or closed under it, where either outcome can happen)
RecordReadReturn(t) ==
    /\ thread[t].pc = "reading"
    /\ \/ /\ delivered[thread[t].on] < MaxChunks
          /\ delivered' = [delivered EXCEPT ![thread[t].on] = @ + 1]
          /\ thread' = [thread EXCEPT ![t].pc = "append",
                  ![t].data = ReadChunk(thread[t].on, delivered[thread[t].on] + 1,
                                        config)]
       \/ /\ thread' = [thread EXCEPT ![t].pc = "done", ![t].on = 0]
          /\ UNCHANGED delivered
    /\ UNCHANGED <<recorder, stream, nopen, calls, triggers, cur, loop_pc, files,
                   now, config, app, pipeline>>

\* self.audio_frames.append(data)
RecordAppend(t) ==
    /\ thread[t].pc = "append"
    /\ audio_frames' = Append(audio_frames, thread[t].data)
    /\ thread' = [thread EXCEPT ![t].pc = "check", ![t].on = 0, ![t].data = <<>>]
    /\ UNCHANGED <<recording, audio_stream, recording_thread>>
    /\ UNCHANGED <<device, calls, triggers, cur, loop_pc, files, now, config, app, pipeline>>

\* datetime.now() moves on to the next second; the clock is read by
\* _save_audio_file alone, so its advance is taken where that call is due
Tick ==
    /\ loop_pc \in {"stop_save", "save"}
    /\ now < MaxTime
    /\ now' = now + 1
    /\ UNCHANGED <<recorder, device, thread, calls, triggers, cur, loop_pc, files,
                   config, app, pipeline>>

\* the toggle path and the recorder: every coroutine up to the return of its
\* start_recording or stop_recording call; what _stop_recording does with the
\* path it gets is in NextApp
Next ==
    \/ Run
    \/ OnHotkey
    \/ \E i \in Triggers : PlaySound(i)
    \/ \E i \in Triggers : StartCheck(i)
    \/ StartClear
    \/ StartOpen
    \/ StartThread
    \/ \E i \in Triggers : StopCheck(i)
    \/ StopStream
    \/ StopClose
    \/ StopClear
    \/ StopJoin
    \/ StopSave
    \/ \E t \in Sessions : RecordCheck(t)
    \/ \E t \in Sessions : RecordRead(t)
    \/ \E t \in Sessions : RecordReadReturn(t)
    \/ \E t \in Sessions : RecordAppend(t)
    \/ Tick

Spec == Init /\ [][Next]_vars

\* the same program under a user who never presses while a press is pending
NextPatient ==
    \/ Run
    \/ OnHotkeyPatient
    \/ \E i \in Triggers : PlaySound(i)
    \/ \E i \in Triggers : StartCheck(i)
    \/ StartClear
    \/ StartOpen
    \/ StartThread
    \/ \E i \in Triggers : StopCheck(i)
    \/ StopStream
    \/ StopClose
    \/ StopClear
    \/ StopJoin
    \/ StopSave
    \/ \E t \in Sessions : RecordCheck(t)
    \/ \E t \in Sessions : RecordRead(t)
    \/ \E t \in Sessions : RecordReadReturn(t)
    \/ \E t \in Sessions : RecordAppend(t)
    \/ Tick

SpecPatient == Init /\ [][NextPatient]_vars

\* the recorder under presses made one at a time, with the scheduling the
\* program runs under: the loop thread goes on with the call it is inside,
\* each capture thread is scheduled again and again, and every device read
\* that was made returns or raises
NextLive ==
    \/ Run
    \/ OnHotkeySettled
    \/ \E i \in Triggers : PlaySound(i)
    \/ \E i \in Triggers : StartCheck(i)
    \/ StartClear
    \/ StartOpen
    \/ StartThread
    \/ \E i \in Triggers : StopCheck(i)
    \/ StopStream
    \/ StopClose
    \/ StopClear
    \/ StopJoin
    \/ StopSave
    \/ \E t \in Sessions : RecordCheck(t)
    \/ \E t \in Sessions : RecordRead(t)
    \/ \E t \in Sessions : RecordReadReturn(t)
    \/ \E t \in Sessions : RecordAppend(t)

Fairness ==
    /\ WF_vars(StopStream)
    /\ WF_vars(StopClose)
    /\ WF_vars(StopClear)
    /\ WF_vars(StopJoin)
    /\ WF_vars(StopSave)
    /\ \A t \in Sessions :
          /\ WF_vars(RecordCheck(t))
          /\ WF_vars(RecordRead(t))
          /\ WF_vars(RecordReadReturn(t))
          /\ WF_vars(RecordAppend(t))

SpecLive == Init /\ [][NextLive]_vars /\ Fairness

\* ------------------------------------- cli.py: main, and app.py: run, cleanup

\* main up to the validate-only test: Config(env_file=args.env) twice and the
\* overrides of the environment; an exception goes to main's except Exception
MainConfig ==
    /\ main_pc = "start"
    /\ \/ /\ main_pc' = IF validate_config THEN "validate" ELSE "construct"
          /\ UNCHANGED exit_status
       \/ /\ main_pc' = "exit_error"
          /\ exit_status' = 1
    /\ UNCHANGED <<hotkey_listener, running, loop, audio, validate_config, api_key,
                   folder, valid, run_error,
                   processing, seen>>
    /\ UNCHANGED <<recorder, device, thread, calls, triggers, cur, loop_pc, files,
                   now, config, pipeline>>

\* the validate-only mode exiting with status 0 whatever validate() gave
MainValidateExitsZero ==
    /\ main_pc = "validate"
    /\ valid' = Validate(api_key, folder)
    /\ folder' = FolderAfter(api_key, folder)
    /\ main_pc' = IF valid' = "raise" THEN "exit_error" ELSE "exit_valid"
    /\ exit_status' = IF valid' = "raise" THEN 1 ELSE 0
    /\ UNCHANGED <<hotkey_listener, running, loop, audio, validate_config, api_key,
                   run_error,
                   processing, seen>>
    /\ UNCHANGED <<recorder, device, thread, calls, triggers, cur, loop_pc, files,
                   now, config, pipeline>>

\* if args.validate_config: sys.exit(0) if config.validate() else sys.exit(1);
\* a validate() that raises goes to main's except Exception
MainValidate ==
    /\ main_pc = "validate"
    /\ valid' = Validate(api_key, folder)
    /\ folder' = FolderAfter(api_key, folder)
    /\ main_pc' = CASE valid' = "True" -> "exit_valid"
                    [] valid' = "False" -> "exit_invalid"
                    [] OTHER -> "exit_error"
    /\ exit_status' = IF valid' = "True" THEN 0 ELSE 1
    /\ UNCHANGED <<hotkey_listener, running, loop, audio, validate_config, api_key,
                   run_error,
                   processing, seen>>
    /\ UNCHANGED <<recorder, device, thread, calls, triggers, cur, loop_pc, files,
                   now, config, pipeline>>

\* app = VoiceToTextApp(config): AudioRecorder.__init__ opens PyAudio and
\* TranscriptionService.__init__ makes a client when there is an API key; an
\* exception (no audio host) goes to main's except Exception
MainConstruct ==
    /\ main_pc = "construct"
    /\ \/ /\ audio' = "open"
          /\ client' = (api_key = "set")
          /\ main_pc' = "run"
          /\ UNCHANGED exit_status
       \/ /\ main_pc' = "exit_error"
          /\ exit_status' = 1
          /\ UNCHANGED <<audio, client>>
    /\ UNCHANGED <<hotkey_listener, running, loop, validate_config, api_key,
                   folder, valid, run_error,
                   processing, seen>>
    /\ UNCHANGED <<recorder, device, thread, calls, triggers, cur, loop_pc, files,
                   now, config>>
    /\ UNCHANGED <<answer, linesep, jobs, txt, clipboard>>

\* asyncio.run(app.run()) raises KeyboardInterrupt, Ctrl+C having come before
\* run installed its signal handlers: main's except KeyboardInterrupt
MainInterrupted ==
    /\ main_pc = "run"
    /\ loop = "none"
    /\ main_pc' = "exit_interrupted"
    /\ exit_status' = 0
    /\ UNCHANGED <<hotkey_listener, running, loop, audio, validate_config, api_key,
                   folder, valid, run_error,
                   processing, seen>>
    /\ UNCHANGED <<recorder, device, thread, calls, triggers, cur, loop_pc, files,
                   now, config, pipeline>>

\* run with a configuration that is not valid: validate() gives False and run
\* logs and returns, or validate() raises into run's except Exception; either
\* way the finally clause goes to cleanup
RunInvalid ==
    /\ main_pc = "run"
    /\ loop = "none"
    /\ loop_pc = "idle"
    /\ Validate(api_key, folder) # "True"
    /\ valid' = Validate(api_key, folder)
    /\ folder' = FolderAfter(api_key, folder)
    /\ run_error' = IF valid' = "False" THEN "Configuration validation failed"
                                        ELSE "Application error"
    /\ loop' = "running"
    /\ loop_pc' = "cleanup"
    /\ UNCHANGED <<hotkey_listener, running, audio, main_pc, exit_status,
                   validate_config, api_key,
                   processing, seen>>
    /\ UNCHANGED <<recorder, device, thread, calls, triggers, cur, files, now,
                   config, pipeline>>

\* run with a valid configuration whose setup_hotkey_listener raises, from
\* GlobalHotKeys(...) with no listener assigned or from start() with one
\* assigned; run's except Exception logs it and the finally clause goes to
\* cleanup
RunSetupFails ==
    /\ main_pc = "run"
    /\ loop = "none"
    /\ loop_pc = "idle"
    /\ Validate(api_key, folder) = "True"
    /\ valid' = "True"
    /\ folder' = FolderAfter(api_key, folder)
    /\ hotkey_listener' \in {"none", "created"}
    /\ run_error' = "Application error"
    /\ loop' = "running"
    /\ loop_pc' = "cleanup"
    /\ UNCHANGED <<running, audio, main_pc, exit_status, validate_config, api_key,
                   processing, seen>>
    /\ UNCHANGED <<recorder, device, thread, calls, triggers, cur, files, now,
                   config, pipeline>>

\* signal_handler, for SIGINT or SIGTERM: self.running = False
Signal ==
    /\ main_pc = "run"
    /\ running
    /\ running' = FALSE
    /\ UNCHANGED <<hotkey_listener, loop, process>>
    /\ UNCHANGED <<recorder, device, thread, calls, triggers, cur, loop_pc, files,
                   now, config, pipeline>>

\* while self.running: await asyncio.sleep(1) wakes on the loop thread, finds
\* the flag cleared, and the finally clause goes to cleanup
RunLoopExit ==
    /\ main_pc = "run"
    /\ loop = "running"
    /\ hotkey_listener = "started"
    /\ ~running
    /\ loop_pc = "idle"
    /\ loop_pc' = "cleanup"
    /\ UNCHANGED <<recorder, device, thread, calls, triggers, cur, files, now,
                   config, app, pipeline>>

\* cleanup: if self.hotkey_listener: self.hotkey_listener.stop()
CleanupListener ==
    /\ loop_pc = "cleanup"
    /\ hotkey_listener' = IF hotkey_listener = "none" THEN "none" ELSE "stopped"
    /\ loop_pc' = "cleanup_recorder"
    /\ UNCHANGED <<running, loop, process>>
    /\ UNCHANGED <<recorder, device, thread, calls, triggers, cur, files, now,
                   config, pipeline>>

\* AudioRecorder.cleanup: if self.recording: self.stop_recording(), whose
\* first statements are the flag test and self.recording = False
CleanupRecorder ==
    /\ loop_pc = "cleanup_recorder"
    /\ recording' = FALSE
    /\ loop_pc' = IF recording THEN "stop_stream" ELSE "cleanup_terminate"
    /\ UNCHANGED <<audio_frames, audio_stream, recording_thread>>
    /\ UNCHANGED <<device, thread, calls, triggers, cur, files, now, config, app,
                   pipeline>>

\* AudioRecorder.cleanup: if self.audio: self.audio.terminate(); cleanup and
\* run return
CleanupTerminate ==
    /\ loop_pc = "cleanup_terminate"
    /\ audio' = "terminated"
    /\ loop_pc' = "returned"
    /\ UNCHANGED <<hotkey_listener, running, loop, main_pc, exit_status,
                   validate_config, api_key, folder, valid, run_error,
                   processing, seen>>
    /\ UNCHANGED <<recorder, device, thread, calls, triggers, cur, files, now,
                   config, pipeline>>

\* run has returned inside one turn of the event loop, and the loop stops
\* only after the callbacks queued behind it have run: a coroutine whose
\* await has completed is resumed like at any other time
LoopDrain ==
    /\ main_pc = "run"
    /\ loop_pc = "returned"
    /\ \E i \in Triggers : tasks[i].pc = "ready"
    /\ loop_pc' = "idle"
    /\ UNCHANGED <<recorder, device, thread, calls, triggers, cur, files, now,
                   config, app, pipeline>>

\* the loop has stopped: asyncio.run cancels the coroutines still pending,
\* closes the loop and returns, and main ends, which is exit status 0
MainReturn ==
    /\ main_pc = "run"
    /\ audio = "terminated"
    /\ loop_pc \in {"returned", "idle"}
    /\ tasks' = [i \in Triggers |-> IF InFlight(i) THEN DoneTask ELSE tasks[i]]
    /\ loop' = "closed"
    /\ main_pc' = "exit_returned"
    /\ exit_status' = 0
    /\ UNCHANGED <<last, prev>>
    /\ UNCHANGED <<hotkey_listener, running, audio, validate_config, api_key,
                   folder, valid, run_error,
                   processing, seen>>
    /\ loop_pc' = "returned"
    /\ UNCHANGED <<recorder, device, thread, triggers, cur, files, now,
                   config, pipeline>>

\* the process before main has run: the arguments and the environment are
\* any, nothing is constructed
InitMain ==
    /\ InitRecorder
    /\ client = FALSE
    /\ answer = Hello
    /\ linesep = LF
    /\ jobs = [i \in Triggers |-> NoJob]
    /\ txt = [p \in Times |-> <<>>]
    /\ clipboard = <<>>
    /\ tasks = [i \in Triggers |-> NoTask]
    /\ last = NoCall
    /\ prev = NoCall
    /\ triggers = 0
    /\ cur = 0
    /\ loop_pc = "idle"
    /\ config = DefaultConfig
    /\ hotkey_listener = "none"
    /\ running = FALSE
    /\ loop = "none"
    /\ audio = "none"
    /\ main_pc = "start"
    /\ exit_status = -1
    /\ validate_config \in BOOLEAN
    /\ api_key \in {"unset", "empty", "set"}
    /\ folder \in {"exists", "creatable", "blocked"}
    /\ valid = "none"
    /\ run_error = "none"
    /\ processing = [i \in Triggers |-> NoProc]
    /\ seen = [k \in Settings |-> <<>>]

\* the whole process: main, run, the toggle path under presses made one at a
\* time, the recorder, a signal, and cleanup
NextMain ==
    \/ MainConfig
    \/ MainValidate
    \/ MainConstruct
    \/ MainInterrupted
    \/ Run
    \/ RunInvalid
    \/ RunSetupFails
    \/ OnHotkeySettled
    \/ \E i \in Triggers : PlaySound(i)
    \/ \E i \in Triggers : StartCheck(i)
    \/ StartClear
    \/ StartOpen
    \/ StartThread
    \/ \E i \in Triggers : StopCheck(i)
    \/ StopStream
    \/ StopClose
    \/ StopClear
    \/ StopJoin
    \/ StopSave
    \/ \E t \in Sessions : RecordCheck(t)
    \/ \E t \in Sessions : RecordRead(t)
    \/ \E t \in Sessions : RecordReadReturn(t)
    \/ \E t \in Sessions : RecordAppend(t)
    \/ Signal
    \/ RunLoopExit
    \/ CleanupListener
    \/ CleanupRecorder
    \/ CleanupTerminate
    \/ LoopDrain
    \/ MainReturn

SpecMain == InitMain /\ [][NextMain]_vars

\* ------------------------------- app.py: _process_recording and its callees

\* the rest of the model, which no step of _process_recording touches
rest == <<recorder, device, thread, calls, triggers, cur, loop_pc, files, now,
          config, app>>

\* transcribe_audio without its check of self.client
TranscribeAudioUnchecked(path, exists) ==
    IF ~exists
      THEN [NoJob EXCEPT !.pc = "done", !.path = path, !.returned = TRUE]
      ELSE [NoJob EXCEPT !.pc = "transcribing", !.path = path]

\* _process_recording(audio_path) up to its first await: transcribe_audio
\* returns None when there is no client or no such file (and _process_recording
\* logs "No transcription received"), else hands _transcribe_sync to the executor
TranscribeAudio(path, exists) ==
    IF ~client \/ ~exists
      THEN [NoJob EXCEPT !.pc = "done", !.path = path, !.returned = TRUE]
      ELSE [NoJob EXCEPT !.pc = "transcribing", !.path = path]

\* _process_recording calling _transcribe_sync on the loop thread itself
StopSaveProcessInline ==
    /\ loop_pc = "stop_save"
    /\ audio_frames # <<>>
    /\ files' = [files EXCEPT ![now] = SaveAudioFile(audio_frames, config)]
    /\ Returned(cur, "Path", now, "Recording stopped and saved")
    /\ jobs' = [jobs EXCEPT ![cur] = TranscribeAudio(now, TRUE)]
    /\ loop_pc' = "transcribe_sync"
    /\ UNCHANGED cur
    /\ UNCHANGED <<recorder, device, thread, triggers, now, config, app>>
    /\ UNCHANGED <<client, answer, linesep, txt, clipboard>>

\* stop_recording's save and return, and with a path _stop_recording goes on
\* into _process_recording on the same turn of the loop
StopSaveProcess ==
    /\ loop_pc = "stop_save"
    /\ IF audio_frames = <<>>
         THEN /\ Return("None", -1, "No audio data recorded")
              /\ UNCHANGED <<files, jobs>>
         ELSE \/ /\ files' = [files EXCEPT ![now] = SaveAudioFile(audio_frames, config)]
                 /\ Return("Path", now, "Recording stopped and saved")
                 /\ jobs' = [jobs EXCEPT ![cur] = TranscribeAudio(now, TRUE)]
              \/ /\ Return("None", -1, "Failed to stop recording")
                 /\ UNCHANGED <<files, jobs>>
    /\ UNCHANGED <<recorder, device, thread, triggers, now, config, app>>
    /\ UNCHANGED <<client, answer, linesep, txt, clipboard>>

\* _transcribe_sync making a second request after one that failed
TranscribeSyncRetry(i) ==
    /\ jobs[i].pc = "transcribing"
    /\ \/ jobs' = [jobs EXCEPT ![i].pc = "transcribed"]
       \/ jobs' = [jobs EXCEPT ![i].pc = "transcribed", ![i].requests = @ + 1,
                               ![i].resp = <<answer>>]
       \/ /\ jobs[i].requests < 2
          /\ jobs' = [jobs EXCEPT ![i].requests = @ + 1]
    /\ UNCHANGED <<client, answer, linesep, txt, clipboard>>
    /\ UNCHANGED rest

\* _transcribe_sync, on an executor thread: open(audio_path) raises, or the one
\* call of client.audio.transcriptions.create returns the text or raises;
\* every exception is caught and gives None
TranscribeSync(i) ==
    /\ jobs[i].pc = "transcribing"
    /\ \/ jobs' = [jobs EXCEPT ![i].pc = "transcribed"]
       \/ jobs' = [jobs EXCEPT ![i].pc = "transcribed", ![i].requests = @ + 1,
                               ![i].resp = <<answer>>]
       \/ jobs' = [jobs EXCEPT ![i].pc = "transcribed", ![i].requests = @ + 1]
    /\ UNCHANGED <<client, answer, linesep, txt, clipboard>>
    /\ UNCHANGED rest

\* transcribe_audio resumed, handing the write to the executor whatever
\* _transcribe_sync gave
TranscribeResumeSavesAnyway(i) ==
    /\ loop_pc = "idle"
    /\ jobs[i].pc = "transcribed"
    /\ jobs' = [jobs EXCEPT ![i].pc = "saving"]
    /\ UNCHANGED <<client, answer, linesep, txt, clipboard>>
    /\ UNCHANGED rest

\* transcribe_audio resumed, returning the text without saving it
TranscribeResumeNoSave(i) ==
    /\ loop_pc = "idle"
    /\ jobs[i].pc = "transcribed"
    /\ IF Truthy(jobs[i].resp)
         THEN jobs' = [jobs EXCEPT ![i].pc = "copying", ![i].returned = TRUE,
                                   ![i].ret = jobs[i].resp]
         ELSE jobs' = [jobs EXCEPT ![i].pc = "done", ![i].returned = TRUE]
    /\ UNCHANGED <<client, answer, linesep, txt, clipboard>>
    /\ UNCHANGED rest

\* _process_recording calling copy_and_paste whatever transcribe_audio gave
TranscribeResumeEmitsAnyway(i) ==
    /\ loop_pc = "idle"
    /\ jobs[i].pc = "transcribed"
    /\ IF Truthy(jobs[i].resp)
         THEN jobs' = [jobs EXCEPT ![i].pc = "saving"]
         ELSE jobs' = [jobs EXCEPT ![i].pc = "copying", ![i].returned = TRUE]
    /\ UNCHANGED <<client, answer, linesep, txt, clipboard>>
    /\ UNCHANGED rest

\* transcribe_audio resumed on the loop with _transcribe_sync's result:
\* if transcript: await self._save_transcription(...), the write handed to
\* the executor; else: return None, and _process_recording ends
TranscribeResume(i) ==
    /\ loop_pc = "idle"
    /\ jobs[i].pc = "transcribed"
    /\ IF Truthy(jobs[i].resp)
         THEN jobs' = [jobs EXCEPT ![i].pc = "saving"]
         ELSE jobs' = [jobs EXCEPT ![i].pc = "done", ![i].returned = TRUE]
    /\ UNCHANGED <<client, answer, linesep, txt, clipboard>>
    /\ UNCHANGED rest

\* the text a job holds, the empty string for None
TextOf(opt) == IF opt = <<>> THEN <<>> ELSE opt[1]

\* _write_text_file, on an executor thread: the text is written, or open
\* raises and the file is as it was, or write raises after open has created
\* or truncated the file
WriteTextFile(i) ==
    /\ jobs[i].pc = "saving"
    /\ \/ /\ txt' = [txt EXCEPT ![jobs[i].path] =
                        <<WriteText(TextOf(jobs[i].resp), linesep)>>]
          /\ jobs' = [jobs EXCEPT ![i].pc = "written", ![i].wrote = "ok"]
       \/ /\ UNCHANGED txt
          /\ jobs' = [jobs EXCEPT ![i].pc = "written", ![i].wrote = "failed"]
       \/ /\ txt' = [txt EXCEPT ![jobs[i].path] = << <<>> >>]
          /\ jobs' = [jobs EXCEPT ![i].pc = "written", ![i].wrote = "failed"]
    /\ UNCHANGED <<client, answer, linesep, clipboard>>
    /\ UNCHANGED rest

\* transcribe_audio resumed after a write that raised, the exception not
\* caught by _save_transcription
SaveResumeRaises(i) ==
    /\ loop_pc = "idle"
    /\ jobs[i].pc = "written"
    /\ IF jobs[i].wrote = "failed"
         THEN jobs' = [jobs EXCEPT ![i].pc = "done", ![i].returned = TRUE]
         ELSE jobs' = [jobs EXCEPT ![i].pc = "copying", ![i].returned = TRUE,
                                   ![i].ret = jobs[i].resp]
    /\ UNCHANGED <<client, answer, linesep, txt, clipboard>>
    /\ UNCHANGED rest

\* transcribe_audio resumed after the write, whose exception
\* _save_transcription has caught: return transcript; _process_recording then
\* calls copy_and_paste(transcript), which hands pyperclip.copy to the executor
SaveResume(i) ==
    /\ loop_pc = "idle"
    /\ jobs[i].pc = "written"
    /\ jobs' = [jobs EXCEPT ![i].pc = "copying", ![i].returned = TRUE,
                            ![i].ret = jobs[i].resp]
    /\ UNCHANGED <<client, answer, linesep, txt, clipboard>>
    /\ UNCHANGED rest

\* pyperclip.copy(text), on an executor thread: the clipboard holds the text,
\* or the call raises
Copy(i) ==
    /\ jobs[i].pc = "copying"
    /\ \/ /\ clipboard' = <<TextOf(jobs[i].ret)>>
          /\ jobs' = [jobs EXCEPT ![i].pc = "copied", ![i].copy = "ok"]
       \/ /\ UNCHANGED clipboard
          /\ jobs' = [jobs EXCEPT ![i].pc = "copied", ![i].copy = "failed"]
    /\ UNCHANGED <<client, answer, linesep, txt>>
    /\ UNCHANGED rest

\* copy_and_paste going on to the keystroke after a copy that raised
CopyResumePastesAnyway(i) ==
    /\ loop_pc = "idle"
    /\ jobs[i].pc = "copied"
    /\ jobs' = [jobs EXCEPT ![i].pc = "pasting"]
    /\ UNCHANGED <<client, answer, linesep, txt, clipboard>>
    /\ UNCHANGED rest

\* copy_and_paste resumed after the copy: its exception is caught and gives
\* False; else pyautogui.hotkey('ctrl', 'v') is handed to the executor
CopyResume(i) ==
    /\ loop_pc = "idle"
    /\ jobs[i].pc = "copied"
    /\ IF jobs[i].copy = "failed"
         THEN jobs' = [jobs EXCEPT ![i].pc = "done", ![i].out = "False"]
         ELSE jobs' = [jobs EXCEPT ![i].pc = "pasting"]
    /\ UNCHANGED <<client, answer, linesep, txt, clipboard>>
    /\ UNCHANGED rest

\* pyautogui.hotkey('ctrl', 'v'), on an executor thread: the keystroke is
\* sent, or the call raises
Paste(i) ==
    /\ jobs[i].pc = "pasting"
    /\ \/ jobs' = [jobs EXCEPT ![i].pc = "pasted", ![i].paste = "ok"]
       \/ jobs' = [jobs EXCEPT ![i].pc = "pasted", ![i].paste = "failed"]
    /\ UNCHANGED <<client, answer, linesep, txt, clipboard>>
    /\ UNCHANGED rest

\* copy_and_paste resumed after the keystroke: return True, or the exception
\* is caught and gives False; _process_recording and _stop_recording end
PasteResume(i) ==
    /\ loop_pc = "idle"
    /\ jobs[i].pc = "pasted"
    /\ jobs' = [jobs EXCEPT ![i].pc = "done",
                            ![i].out = IF jobs[i].paste = "ok" THEN "True"
                                                               ELSE "False"]
    /\ UNCHANGED <<client, answer, linesep, txt, clipboard>>
    /\ UNCHANGED rest

\* the whole application: the toggle path with _stop_recording carried on
\* into _process_recording
NextApp ==
    \/ Run
    \/ OnHotkeySettled
    \/ \E i \in Triggers : PlaySound(i)
    \/ \E i \in Triggers : StartCheck(i)
    \/ StartClear
    \/ StartOpen
    \/ StartThread
    \/ \E i \in Triggers : StopCheck(i)
    \/ StopStream
    \/ StopClose
    \/ StopClear
    \/ StopJoin
    \/ StopSaveProcess
    \/ \E t \in Sessions : RecordCheck(t)
    \/ \E t \in Sessions : RecordRead(t)
    \/ \E t \in Sessions : RecordReadReturn(t)
    \/ \E t \in Sessions : RecordAppend(t)
    \/ Tick
    \/ \E i \in Triggers : TranscribeSync(i)
    \/ \E i \in Triggers : TranscribeResume(i)
    \/ \E i \in Triggers : WriteTextFile(i)
    \/ \E i \in Triggers : SaveResume(i)
    \/ \E i \in Triggers : Copy(i)
    \/ \E i \in Triggers : CopyResume(i)
    \/ \E i \in Triggers : Paste(i)
    \/ \E i \in Triggers : PasteResume(i)

SpecApp == Init /\ [][NextApp]_vars

\* ------------------------------------ _process_recording on its own

\* a recording as an earlier session left it in the folder
SomeFile == SaveAudioFile(<<ReadChunk(1, 1, DefaultConfig)>>, DefaultConfig)

\* the application idle, with or without a client, the audio file there or
\* not, a transcript of an earlier run there or not
InitTranscribe ==
    /\ recording = FALSE
    /\ audio_frames = <<>>
    /\ audio_stream = 0
    /\ recording_thread = 0
    /\ stream = [s \in Sessions |-> "none"]
    /\ nopen = 0
    /\ delivered = [s \in Sessions |-> 0]
    /\ thread = [t \in Sessions |-> NoThread]
    /\ files \in [Times -> {NoFile, SomeFile}]
    /\ now = 0
    /\ tasks = [i \in Triggers |-> NoTask]
    /\ last = NoCall
    /\ prev = NoCall
    /\ triggers = 0
    /\ cur = 0
    /\ loop_pc = "idle"
    /\ config = DefaultConfig
    /\ hotkey_listener = "none"
    /\ running = FALSE
    /\ loop = "none"
    /\ InitProcess
    /\ client \in BOOLEAN
    /\ answer \in Texts
    /\ linesep \in {LF, CRLF}
    /\ jobs = [i \in Triggers |-> NoJob]
    /\ txt \in [Times -> {<<>>, <<Hello>>}]
    /\ clipboard = <<>>

\* _process_recording(audio_path) is called, once, on some path
ProcessRecordingCall ==
    /\ loop_pc = "idle"
    /\ jobs[1].pc = "none"
    /\ \E p \in Times :
          jobs' = [jobs EXCEPT ![1] = TranscribeAudio(p, files[p] # NoFile)]
    /\ UNCHANGED <<client, answer, linesep, txt, clipboard>>
    /\ UNCHANGED rest

NextTranscribe ==
    \/ ProcessRecordingCall
    \/ \E i \in Triggers : TranscribeSync(i)
    \/ \E i \in Triggers : TranscribeResume(i)
    \/ \E i \in Triggers : WriteTextFile(i)
    \/ \E i \in Triggers : SaveResume(i)
    \/ \E i \in Triggers : Copy(i)
    \/ \E i \in Triggers : CopyResume(i)
    \/ \E i \in Triggers : Paste(i)
    \/ \E i \in Triggers : PasteResume(i)

SpecTranscribe == InitTranscribe /\ [][NextTranscribe]_vars

\* ------------------------------------------- the WAV serializer on its own

Bytes == 0..MaxByte

\* byte strings of one or two bytes
ChunkValues == {<<b>> : b \in Bytes} \cup {<<b, c>> : b \in Bytes, c \in Bytes}

FrameSeqs == UNION {[1..n -> ChunkValues] : n \in 0..MaxLen}

Configs == [audio_channels : {DefaultChannels, DefaultChannels + 1},
            audio_sample_rate : {DefaultSampleRate, OtherSampleRate},
            audio_chunk_size : {ChunkSize}]

InitSave ==
    /\ recording = FALSE
    /\ audio_frames \in FrameSeqs
    /\ audio_stream = 0
    /\ recording_thread = 0
    /\ stream = [s \in Sessions |-> "none"]
    /\ nopen = 0
    /\ delivered = [s \in Sessions |-> 0]
    /\ thread = [t \in Sessions |-> NoThread]
    /\ files = [p \in Times |-> NoFile]
    /\ now = 0
    /\ tasks = [i \in Triggers |-> NoTask]
    /\ last = NoCall
    /\ prev = NoCall
    /\ triggers = 0
    /\ cur = 0
    /\ loop_pc = "save"
    /\ config \in Configs
    /\ hotkey_listener = "none"
    /\ running = FALSE
    /\ loop = "none"
    /\ InitProcess
    /\ InitPipeline

\* AudioRecorder._save_audio_file called on the buffer as it stands
SaveAudioFileCall ==
    /\ loop_pc = "save"
    /\ files' = [files EXCEPT ![now] = SaveAudioFile(audio_frames, config)]
    /\ loop_pc' = "saved"
    /\ UNCHANGED <<recorder, device, thread, calls, triggers, cur, now, config, app, pipeline>>

NextSave ==
    \/ SaveAudioFileCall
    \/ Tick

SpecSave == InitSave /\ [][NextSave]_vars

\* ================================================================ claims

\* the chunks stream s has delivered so far, in the order of delivery
DeliveredChunks(s) == [k \in 1..delivered[s] |-> ReadChunk(s, k, config)]

\* the start_recording / stop_recording call of coroutine i takes its first step
Calls(i, kind) ==
    /\ tasks[i].kind = kind
    /\ tasks[i].pc = "ready"
    /\ tasks'[i].pc # "ready"

\* C1: at most one capture thread is alive, and no two threads have a read in
\* flight on the same stream, also in runs where a stream operation raises.
C1_OneCaptureThread ==
    /\ Cardinality({t \in Sessions : Alive(t)}) <= 1
    /\ \A t, u \in Sessions :
          (t # u /\ thread[t].pc = "reading" /\ thread[u].pc = "reading")
              => thread[t].on # thread[u].on

\* C2: the capture thread never has a read in flight on a stream that
\* stop_stream or close has been called on, and never reaches the call
\* self.audio_stream.read with audio_stream set to None.
C2_CloseAfterThreadExit ==
    \A t \in Sessions :
        /\ thread[t].pc = "reading" => stream[thread[t].on] = "open"
        /\ thread[t].pc = "read" => audio_stream # 0

\* C3: the chunks a stop_recording serializes are exactly the chunks the
\* session's stream delivered, in order, each once.
C3_SavedChunksAreDelivered ==
    [][(loop_pc = "stop_save" /\ loop_pc' = "idle" /\ last'.ret = "Path")
          => files'[now].frames = Join(DeliveredChunks(nopen))]_vars

\* C4: a trigger that arrives while stop_recording is processing (the flag
\* cleared, the call not yet returned) is dropped: its coroutine never runs a
\* start_recording call and never starts a recording.
C4_TriggerDuringStopDropped ==
    /\ \A i \in Triggers : tasks[i].during # 0 => cur # i
    /\ last.during # 0 => last.log # "Recording started"

\* C5: a trigger that arrives while an earlier trigger's coroutine has not yet
\* completed its call is rejected: once that call has completed the recorder
\* stays as it left it, the late trigger's own call neither starts nor stops
\* a recording.
C5_LateTriggerRejected ==
    [][\A i \in Triggers :
          ((Calls(i, "start") \/ Calls(i, "stop"))
              /\ tasks[i].after # 0
              /\ tasks[tasks[i].after].pc = "done")
          => (/\ tasks'[i].pc = "done"
              /\ last'.log \in {"Recording already in progress",
                                "No recording in progress"}
              /\ UNCHANGED recorder)]_vars

\* C6: start_recording called while recording returns False and leaves the
\* flag, the buffer, the stream handle and the thread as they are; no stream
\* is opened and no thread is started.
C6_StartWhileRecordingNoOp ==
    [][\A i \in Triggers :
          (Calls(i, "start") /\ recording)
              => /\ tasks'[i].pc = "done"
                 /\ last'.ret = "False"
                 /\ UNCHANGED <<recording, audio_frames, audio_stream,
                                recording_thread, stream, nopen, thread>>]_vars

C6_Witness ==
    /\ last.log = "Recording already in progress"
    /\ last.ret = "False"
    /\ recording
    /\ recording_thread # 0
    /\ audio_frames # <<>>

\* C7: stop_recording called while not recording returns None and changes
\* nothing; no file is written.
C7_StopWhileIdleNoOp ==
    [][\A i \in Triggers :
          (Calls(i, "stop") /\ ~recording)
              => /\ tasks'[i].pc = "done"
                 /\ last'.ret = "None"
                 /\ UNCHANGED <<recording, audio_frames, audio_stream,
                                recording_thread, stream, nopen, thread, files>>]_vars

C7_Witness ==
    /\ last.log = "No recording in progress"
    /\ last.ret = "None"
    /\ ~recording
    /\ \A p \in Times : files[p] = NoFile

\* C8: a stop with an empty buffer returns None and writes no file; a file is
\* written only from a buffer of at least one chunk.
C8_NoChunksNoFile ==
    [][(loop_pc = "stop_save" /\ loop_pc' # "stop_save")
          => /\ audio_frames = <<>>
                   => (last'.ret = "None" /\ files' = files)
             /\ (last'.ret = "Path" \/ files' # files)
                   => audio_frames # <<>>]_vars

C8_Witness ==
    /\ last.log = "No audio data recorded"
    /\ last.ret = "None"
    /\ audio_frames = <<>>
    /\ \A p \in Times : files[p] = NoFile

\* C9: when the open in start_recording fails the call returns False with the
\* flag False and without starting a thread.
C9_OpenFailureLeavesIdle ==
    [][(loop_pc = "start_open" /\ loop_pc' = "idle")
          => /\ last'.ret = "False"
             /\ recording' = FALSE
             /\ UNCHANGED <<recording_thread, thread, nopen, stream>>]_vars

\* a start that failed at the open, followed by a start that succeeded
C9_Witness ==
    /\ prev.log = "Failed to start recording"
    /\ prev.ret = "False"
    /\ last.log = "Recording started"
    /\ last.ret = "True"
    /\ recording

RECURSIVE SumLen(_, _)
SumLen(frames, n) == IF n = 0 THEN 0 ELSE SumLen(frames, n - 1) + Len(frames[n])

\* C10: the WAV _save_audio_file writes has the configured channel count and
\* sample rate, the sample width of 16-bit PCM, and as frame bytes the chunks
\* of the buffer one after the other in buffer order.
C10_WavHoldsBuffer ==
    loop_pc = "saved"
        => LET f == files[now]
           IN /\ f.nchannels = config.audio_channels
              /\ f.framerate = config.audio_sample_rate
              /\ f.sampwidth * 8 = 16
              /\ Len(f.frames) = SumLen(audio_frames, Len(audio_frames))
              /\ \A k \in 1..Len(audio_frames) :
                    \A j \in 1..Len(audio_frames[k]) :
                        f.frames[SumLen(audio_frames, k - 1) + j] = audio_frames[k][j]

C10_Witness ==
    /\ loop_pc = "saved"
    /\ Len(audio_frames) = 2
    /\ audio_frames[1] # audio_frames[2]
    /\ Len(audio_frames[1]) # Len(audio_frames[2])
    /\ files[now].frames = audio_frames[1] \o audio_frames[2]
    /\ config.audio_channels # DefaultChannels

\* the step on which transcribe_audio of job i returns
Returns(i) == ~jobs[i].returned /\ jobs'[i].returned

\* the backend has answered job i's one request with a text
Answered(i) == jobs[i].requests = 1 /\ jobs[i].resp # <<>>

C12_BackendErrorNoText ==
    [][\A i \in Triggers :
          /\ (Returns(i) /\ jobs[i].requests = 1 /\ jobs[i].resp = <<>>)
                => (jobs'[i].ret = <<>> /\ jobs'[i].pc = "done")
          /\ (jobs[i].pc # "none" /\ jobs[i].resp = <<>> /\ jobs'[i] # jobs[i])
                => txt' = txt]_vars

C12_Witness ==
    \E i \in Triggers :
        /\ jobs[i].pc = "done"
        /\ jobs[i].requests = 1
        /\ jobs[i].resp = <<>>
        /\ jobs[i].ret = <<>>
        /\ txt[jobs[i].path] = <<Hello>>
        /\ \E p \in Times : txt[p] = <<>>

\* C13: with no client (no API key was configured) transcribe_audio returns
\* None at once: no request is ever made, nothing is handed to the executor
\* and no transcript file is written.
C13_NoKeyNoCall ==
    [][(~client)
          => /\ txt' = txt
             /\ \A i \in Triggers :
                   /\ jobs'[i].requests = 0
                   /\ jobs'[i].pc \in {"none", "done"}
                   /\ jobs'[i].ret = <<>>
                   /\ (jobs'[i].pc = "done") => jobs'[i].returned]_vars

C13_Witness ==
    \E i \in Triggers :
        /\ ~client
        /\ jobs[i].pc = "done"
        /\ jobs[i].returned
        /\ jobs[i].requests = 0
        /\ files[jobs[i].path] # NoFile

\* C14: an invocation of transcribe_audio makes at most one backend request
\* and never a second one after a failure, whose None it returns; it makes
\* none when there is no client or no such file, and a text it holds came
\* from its one request.
C14_AtMostOneRequest ==
    \A i \in Triggers :
        /\ jobs[i].requests <= 1
        /\ (jobs[i].pc # "none" /\ (~client \/ files[jobs[i].path] = NoFile))
              => jobs[i].requests = 0
        /\ (jobs[i].resp # <<>>) => jobs[i].requests = 1
        /\ (jobs[i].returned /\ jobs[i].resp = <<>>) => jobs[i].ret = <<>>

C14_Witness ==
    \E i \in Triggers :
        /\ client
        /\ jobs[i].returned
        /\ jobs[i].requests = 1
        /\ jobs[i].resp = <<>>
        /\ jobs[i].pc = "done"
        /\ jobs[i].out = "none"

\* C14 as stated: every invocation of transcribe_audio makes exactly one
\* backend request.
C14_ExactlyOneRequest ==
    \A i \in Triggers : jobs[i].returned => jobs[i].requests = 1

\* C15: when the backend returned a text and the write of the transcript
\* file fails, transcribe_audio still returns the text and _process_recording
\* goes on to copy_and_paste with it.
C15_WriteFailureKeepsText ==
    [][\A i \in Triggers :
          (Returns(i) /\ jobs[i].wrote = "failed")
              => (/\ Truthy(jobs'[i].ret)
                  /\ jobs'[i].ret = jobs[i].resp
                  /\ jobs'[i].pc = "copying")]_vars

C15_Witness ==
    \E i \in Triggers :
        /\ jobs[i].pc = "done"
        /\ jobs[i].wrote = "failed"
        /\ jobs[i].ret = <<Hello>>
        /\ txt[jobs[i].path] # <<Hello>>
        /\ clipboard = <<Hello>>
        /\ jobs[i].out = "True"

\* C16: when transcribe_audio returns None (no client, no such file, or the
\* backend call failed) copy_and_paste is never called for that recording, the
\* clipboard is left alone, and no step of the processing touches a WAV file.
C16_FailedTranscriptionNoPaste ==
    [][\A i \in Triggers :
          /\ (jobs'[i].returned /\ jobs'[i].ret = <<>>)
                => (/\ jobs'[i].pc = "done"
                    /\ jobs'[i].copy = "none"
                    /\ jobs'[i].paste = "none"
                    /\ jobs'[i].out = "none")
          /\ (jobs'[i] # jobs[i] /\ jobs'[i].ret = <<>>)
                => clipboard' = clipboard
          /\ (jobs[i].pc # "none" /\ jobs'[i] # jobs[i])
                => files' = files]_vars

C16_Witness ==
    \E i \in Triggers :
        /\ client
        /\ jobs[i].pc = "done"
        /\ jobs[i].returned
        /\ jobs[i].ret = <<>>
        /\ jobs[i].requests = 1
        /\ files[jobs[i].path] = SomeFile
        /\ clipboard = <<>>

\* the positions of _record_audio; a thread whose exception nothing caught
\* would be at none of them
ThreadStates == {"idle", "check", "read", "reading", "append", "done"}

\* C17: whatever has failed (the open, a read, stop_stream, close, the WAV
\* write, the backend call, the transcript write, the clipboard, the
\* keystroke), every capture thread is inside _record_audio or has returned
\* from it, the listener is started and the application running, and
\* _on_hotkey can take the next press.
C17_FailuresAreCaught ==
    /\ \A t \in Sessions : thread[t].pc \in ThreadStates
    /\ (loop = "running") => (hotkey_listener = "started" /\ running)
    /\ (loop = "running" /\ triggers < MaxTriggers) => ENABLED OnHotkey

\* a processed recording whose keystroke failed, a capture thread that has
\* returned, then a start that failed at the open
C17_Witness ==
    /\ last.log = "Failed to start recording"
    /\ prev.log = "Recording stopped and saved"
    /\ \E i \in Triggers : jobs[i].pc = "done" /\ jobs[i].paste = "failed"
    /\ \A t \in Sessions : thread[t].pc \in {"idle", "done"}
    /\ hotkey_listener = "started"
    /\ running

\* C18: copy_and_paste returns True exactly when the copy and the keystroke
\* both succeeded and False when either raised, it always returns one of
\* the two, and after a copy that raised no keystroke is sent.
C18_CopyAndPasteResult ==
    \A i \in Triggers :
        /\ jobs[i].out \in {"none", "True", "False"}
        /\ (jobs[i].out = "True")
              <=> (jobs[i].pc = "done" /\ jobs[i].copy = "ok" /\ jobs[i].paste = "ok")
        /\ (jobs[i].pc = "done" /\ "failed" \in {jobs[i].copy, jobs[i].paste})
              => jobs[i].out = "False"
        /\ (jobs[i].copy = "failed") => jobs[i].paste = "none"

C18_Witness ==
    \E i \in Triggers :
        /\ jobs[i].pc = "done"
        /\ jobs[i].copy = "failed"
        /\ jobs[i].paste = "none"
        /\ jobs[i].out = "False"
        /\ clipboard = <<>>

Executing == {"transcribing", "saving", "copying", "pasting"}

\* the positions of the loop thread inside start_recording
StartStates == {"start_clear", "start_open", "start_thread"}

\* C20: while a transcription, a transcript write, a copy or a paste is in
\* flight the loop thread is not inside it: it is idle or inside another
\* coroutine's start_recording or stop_recording, and when it is idle every
\* coroutine that is ready can have its call run.
C20_ToggleNotBlocked ==
    \A i \in Triggers :
        (jobs[i].pc \in Executing)
            => /\ cur # i
               /\ loop_pc \in {"idle"} \cup StartStates \cup StopStates
               /\ \A j \in Triggers :
                     (loop_pc = "idle" /\ tasks[j].pc = "ready")
                         => ENABLED (StartCheck(j) \/ StopCheck(j))

\* the third press arrived after the second's recording went to the backend,
\* and its recording has started while that transcription is in flight
C20_Witness ==
    /\ jobs[2].pc = "transcribing"
    /\ triggers = 3
    /\ last.kind = "start"
    /\ last.log = "Recording started"
    /\ recording
    /\ nopen = 2

\* C25: a capture loop that ends on a read that raised leaves the recorder
\* Idle: when a thread goes from its blocking read to its end, the recording
\* flag is False afterwards.
C25_ReadErrorLeavesIdle ==
    [][\A t \in Sessions :
          (thread[t].pc = "reading" /\ thread'[t].pc = "done") => ~recording']_vars

\* C26: stop_recording tests and serializes the frame buffer only when no
\* capture thread is alive, so no thread can append to it meanwhile.
C26_BufferReadAfterThreadsEnd ==
    (loop_pc = "stop_save") => \A t \in Sessions : ~Alive(t)

\* C28: a save never lands on a path that already holds a recording: when
\* stop_recording returns a path, no file was at that path before the call
\* wrote it.
C28_PathWrittenOnce ==
    [][(loop_pc = "stop_save" /\ loop_pc' = "idle" /\ last'.ret = "Path")
          => files[last'.path] = NoFile]_vars

\* C30: once a stop_recording call has returned and the recorder is Idle,
\* the frame buffer is empty.
C30_FramesReleasedAfterStop ==
    (last.kind = "stop" /\ loop_pc = "idle" /\ ~recording) => audio_frames = <<>>

\* C29: in every _stop_recording run the stop sound comes before the call of
\* stop_recording; _process_recording starts, once and with the returned
\* path, exactly in the step where stop_recording returns a path; and
\* copy_and_paste starts, once and with the returned text, exactly in the
\* step where transcribe_audio returns a non-empty text.
C29_StopRunOrder ==
    [][\A i \in Triggers :
          /\ (tasks[i].kind = "stop" /\ tasks[i].pc = "scheduled")
                => tasks'[i].pc \in {"scheduled", "ready"}
          /\ (jobs[i].pc = "none" /\ jobs'[i].pc # "none")
                <=> (cur = i /\ loop_pc = "stop_save" /\ loop_pc' = "idle"
                     /\ last'.kind = "stop" /\ last'.ret = "Path")
          /\ (jobs[i].pc = "none" /\ jobs'[i].pc # "none")
                => jobs'[i].path = last'.path
          /\ (jobs[i].pc # "none") => (jobs'[i].pc # "none")
          /\ (jobs[i].pc # "copying" /\ jobs'[i].pc = "copying")
                <=> (~jobs[i].returned /\ jobs'[i].returned
                     /\ Truthy(jobs'[i].ret))]_vars

\* the second press's _stop_recording has its recording saved at path 0 and
\* transcribed, and is in copy_and_paste with the text
C29_Witness ==
    /\ tasks[2] = DoneTask
    /\ last.kind = "stop"
    /\ last.ret = "Path"
    /\ jobs[2].pc = "copying"
    /\ jobs[2].path = 0
    /\ jobs[2].ret = <<answer>>

\* C27: stop_recording terminates. While the loop thread is inside
\* stop_recording a capture thread that evaluates its loop condition leaves
\* the loop, and under fair scheduling with reads that return or raise the
\* call comes to its return.
C27_StopRecordingTerminates ==
    /\ [][\A t \in Sessions :
             (loop_pc \in StopStates /\ thread[t].pc = "check"
              /\ thread'[t].pc # "check") => thread'[t].pc = "done"]_vars
    /\ (loop_pc \in StopStates) ~> (loop_pc = "idle")

\* stop_recording is at its join and the thread it joins is inside a read
C27_Witness ==
    /\ loop_pc = "stop_join"
    /\ recording_thread # 0
    /\ thread[recording_thread].pc = "reading"

\* C21: when run() has returned, after a signal or on any other exit path,
\* the hotkey listener is not running, the recorder is not recording, no
\* capture thread is alive and PyAudio has been terminated.
C21_ShutdownPostcondition ==
    (loop_pc = "returned")
        => /\ hotkey_listener # "started"
           /\ ~recording
           /\ \A t \in Sessions : ~Alive(t)
           /\ audio = "terminated"

\* the process has exited
Exited == main_pc \in ExitStates

\* C22: a validate-only run exits with status 0 exactly when validate() gave
\* True and with status 1 otherwise, and at no time in such a run is the
\* application constructed, the loop started or a listener made.
C22_ValidateOnlyExit ==
    validate_config
        => /\ audio = "none"
           /\ loop = "none"
           /\ hotkey_listener = "none"
           /\ Exited => /\ exit_status \in {0, 1}
                        /\ (exit_status = 0) <=> (valid = "True")

\* a validate-only run that found the configuration valid, having made the
\* recordings folder
C22_Witness ==
    /\ validate_config
    /\ main_pc = "exit_valid"
    /\ exit_status = 0
    /\ valid = "True"

\* C23: the exit status is 1 exactly when the configuration was found
\* invalid or a startup step raised, in either mode, and 0 otherwise.
C23_ExitStatus ==
    Exited
        => /\ exit_status \in {0, 1}
           /\ (exit_status = 1)
                 <=> \/ valid \in {"False", "raise"}
                     \/ run_error = "Application error"
                     \/ main_pc = "exit_error"

\* C24: validate() gives False whenever the API key is missing or empty, and
\* True whenever a key is present and the recordings folder exists or can be
\* made.
C24_Validate ==
    (valid # "none")
        => /\ (api_key \in {"unset", "empty"}) => (valid = "False")
           /\ (api_key = "set" /\ folder # "blocked")
                 => (valid = "True" /\ folder = "exists")

\* run() has validated a configuration without an API key
C24_Witness ==
    /\ api_key = "empty"
    /\ valid = "False"
    /\ run_error = "Configuration validation failed"

\* C32: whenever the recorder is Idle and no start_recording or
\* stop_recording call is executing, it holds no stream handle, no stream
\* the device opened is still open, and no capture thread is alive.
C32_IdleHoldsNothing ==
    (~recording /\ loop_pc = "idle")
        => /\ audio_stream = 0
           /\ \A s \in Sessions : stream[s] # "open"
           /\ \A t \in Sessions : ~Alive(t)

\* what start_recording and stop_recording log when a device operation raised
Failures == {"Failed to start recording", "Failed to stop recording"}

\* C33: after k triggers whose coroutines have all completed, no device
\* operation having failed, the recorder is recording exactly when k is odd
\* (stated for k up to 2, where the last two calls are all the calls).
C33_ToggleParity ==
    (/\ triggers <= 2
     /\ \A i \in Triggers : ~InFlight(i)
     /\ loop_pc = "idle"
     /\ last.log \notin Failures
     /\ prev.log \notin Failures)
        => (recording <=> (triggers % 2 = 1))

\* the thread of the current session has ended while the session is still
\* recording or being stopped: its loop ended on a read that raised, or on
\* the cleared flag
Ended ==
    /\ recording_thread # 0
    /\ thread[recording_thread].pc = "done"
    /\ (recording /\ loop_pc \notin StartStates) \/ loop_pc \in StopStates

\* C36: once a session's capture loop has ended, on a read error or
\* otherwise, the buffer keeps the chunks it holds, and a stop_recording that
\* returns a path has serialized exactly those chunks.
C36_ReadErrorKeepsChunks ==
    [][Ended
          => /\ audio_frames' = audio_frames
             /\ (loop_pc = "stop_save" /\ last'.ret = "Path" /\ last' # last)
                   => files'[last'.path] = SaveAudioFile(audio_frames, config)]_vars

\* C37: a backend response whose text is empty is no result: from the moment
\* the job holds it, transcribe_audio can only return None, the job writes no
\* transcript, copies nothing and pastes nothing, and none of its steps
\* changes a transcript file or the clipboard.
C37_EmptyTextIsNoResult ==
    [][\A i \in Triggers :
          (jobs[i].resp = << <<>> >>)
              => /\ jobs'[i].pc \in {"transcribed", "done"}
                 /\ jobs'[i].ret = <<>>
                 /\ jobs'[i].wrote = "none"
                 /\ jobs'[i].copy = "none"
                 /\ jobs'[i].paste = "none"
                 /\ (jobs'[i] # jobs[i]) => (txt' = txt /\ clipboard' = clipboard)]_vars

\* the backend answered the one request with the empty text and
\* transcribe_audio has returned None
C37_Witness ==
    \E i \in Triggers :
        /\ answer = <<>>
        /\ jobs[i].requests = 1
        /\ jobs[i].resp = << <<>> >>
        /\ jobs[i].returned
        /\ jobs[i].pc = "done"

\* C38: once cleanup has terminated PyAudio no stream is opened, no capture
\* thread is started, and a _start_recording coroutine still pending is never
\* resumed into start_recording: it does not enter the call, and if it ends
\* it ends without the call having returned anything.
C38_NothingStartsAfterCleanup ==
    [][(audio = "terminated")
          => /\ nopen' = nopen
             /\ \A t \in Sessions : thread[t].pc = "idle" => thread'[t].pc = "idle"
             /\ \A i \in Triggers :
                   (tasks[i].kind = "start" /\ tasks[i].pc \in {"scheduled", "ready"})
                       => /\ tasks'[i].pc # "running"
                          /\ (tasks'[i] = DoneTask) => (last' = last)]_vars


\* ---------------------------------------------------------------------
\* The prototype, src/main.py: VoiceToTextOverlay.  The hotkey handler runs
\* start_recording and stop_recording on the listener's thread; the capture
\* thread and the process_recording threads run beside it.
\* ---------------------------------------------------------------------

\* VoiceToTextOverlay.__init__: 16 kHz, one channel, the chunk size
OverlayConfig ==
    [audio_channels |-> DefaultChannels,
     audio_sample_rate |-> OtherSampleRate,
     audio_chunk_size |-> ChunkSize]

InitOverlay ==
    /\ InitRecorder
    /\ InitProcess
    /\ tasks = [i \in Triggers |-> NoTask]
    /\ last = NoCall
    /\ prev = NoCall
    /\ triggers = 0
    /\ cur = 0
    /\ loop_pc = "idle"
    /\ files = [p \in Times |-> NoFile]
    /\ now = 0
    /\ config = OverlayConfig
    /\ hotkey_listener = "started"
    /\ running = TRUE
    /\ loop = "none"
    /\ client \in BOOLEAN
    /\ answer \in {<<>>, Hello}
    /\ linesep = LF
    /\ jobs = [i \in Triggers |-> NoJob]
    /\ txt = [p \in Times |-> <<>>]
    /\ clipboard = <<>>

\* on_hotkey while nothing is recorded: start_recording.  The flag is set and
\* the buffer replaced by a new list before the stream is opened; an open that
\* raises leaves the handler with the flag set and no capture thread.
OverlayStartRecording ==
    /\ hotkey_listener = "started"
    /\ ~recording
    /\ triggers < MaxTriggers
    /\ triggers' = triggers + 1
    /\ recording' = TRUE
    /\ audio_frames' = <<>>
    /\ \/ /\ nopen < MaxSessions
          /\ nopen' = nopen + 1
          /\ stream' = [stream EXCEPT ![nopen + 1] = "open"]
          /\ audio_stream' = nopen + 1
          /\ recording_thread' = nopen + 1
          /\ thread' = [thread EXCEPT ![nopen + 1] = [pc |-> "check", on |-> 0, data |-> <<>>]]
       \/ UNCHANGED <<nopen, stream, audio_stream, recording_thread, thread>>
    /\ UNCHANGED <<delivered, calls, cur, loop_pc, files, now, config, app, pipeline>>

\* on_hotkey while recording: stop_recording.  The flag is cleared, the stream
\* stopped and closed (a call that raises ends the handler there), and when
\* the buffer holds something a process_recording thread is started; the
\* capture thread is not waited for.
OverlayStopRecording ==
    /\ hotkey_listener = "started"
    /\ recording
    /\ triggers < MaxTriggers
    /\ triggers' = triggers + 1
    /\ recording' = FALSE
    /\ \/ /\ audio_stream # 0
          /\ stream[audio_stream] = "open"
          /\ stream' = [stream EXCEPT ![audio_stream] = "closed"]
          /\ processing' =
                IF audio_frames # <<>>
                THEN [processing EXCEPT ![triggers + 1] =
                         [pc |-> "started", session |-> audio_stream,
                          nstop |-> Len(audio_frames), path |-> -1]]
                ELSE processing
       \/ /\ audio_stream = 0
          /\ UNCHANGED stream
          /\ processing' =
                IF audio_frames # <<>>
                THEN [processing EXCEPT ![triggers + 1] =
                         [pc |-> "started", session |-> audio_stream,
                          nstop |-> Len(audio_frames), path |-> -1]]
                ELSE processing
       \/ /\ audio_stream # 0
          /\ UNCHANGED <<stream, processing>>
    /\ UNCHANGED <<audio_frames, audio_stream, recording_thread, nopen, delivered,
                   thread, calls, cur, loop_pc, files, now, config, pipeline,
                   hotkey_listener, running, loop, audio, main_pc, exit_status,
                   validate_config, api_key, folder, valid, run_error, seen>>

\* record_audio: while self.recording
OverlayRecordCheck(t) ==
    /\ thread[t].pc = "check"
    /\ thread' = [thread EXCEPT ![t].pc = IF recording THEN "read" ELSE "done"]
    /\ UNCHANGED <<recording, audio_frames, audio_stream, recording_thread, device,
                   calls, triggers, cur, loop_pc, files, now, config, app, pipeline>>

\* process_recording, first half: the name from the clock, then the buffer as
\* it is at that moment joined into the WAV file; a write that raises ends
\* the thread in its handler
OverlayProcessSave(i) ==
    /\ processing[i].pc = "started"
    /\ \/ /\ files' = [files EXCEPT ![now] = SaveAudioFile(audio_frames, config)]
          /\ processing' = [processing EXCEPT ![i].pc = "saved", ![i].path = now]
       \/ /\ processing' = [processing EXCEPT ![i].pc = "done"]
          /\ UNCHANGED files
    /\ UNCHANGED <<recorder, device, thread, calls, triggers, cur, loop_pc, now,
                   config, pipeline, hotkey_listener, running, loop, audio, main_pc,
                   exit_status, validate_config, api_key, folder, valid, run_error, seen>>

\* process_recording, second half: with a client the file is sent, the text
\* written next to it and typed; without one, or when a step raises, the
\* thread ends
OverlayProcessTranscribe(i) ==
    /\ processing[i].pc = "saved"
    /\ processing' = [processing EXCEPT ![i].pc = "done"]
    /\ \/ /\ client
          /\ txt' = [txt EXCEPT ![processing[i].path] = <<WriteText(answer, linesep)>>]
       \/ UNCHANGED txt
    /\ UNCHANGED <<recorder, device, thread, calls, triggers, cur, loop_pc, files, now,
                   config, client, answer, linesep, jobs, clipboard, hotkey_listener,
                   running, loop, audio, main_pc, exit_status, validate_config,
                   api_key, folder, valid, run_error, seen>>

NextOverlay ==
    \/ OverlayStartRecording
    \/ OverlayStopRecording
    \/ \E t \in Sessions : OverlayRecordCheck(t)
    \/ \E t \in Sessions : RecordRead(t)
    \/ \E t \in Sessions : RecordReadReturn(t)
    \/ \E t \in Sessions : RecordAppend(t)
    \/ \E i \in Triggers : OverlayProcessSave(i)
    \/ \E i \in Triggers : OverlayProcessTranscribe(i)

SpecOverlay == InitOverlay /\ [][NextOverlay]_vars

\* the first n chunks the stream of session s delivers
SessionChunks(s, n) == [k \in 1..n |-> ReadChunk(s, k, config)]

\* C39: the WAV file a process_recording thread writes holds chunks of the
\* recording it was started for and of no other: the chunks its stream
\* delivered, in order, at least those the buffer held when stop_recording
\* started the thread.
C39_WavHoldsOwnRecording ==
    [][\A i \in Triggers :
          (processing[i].pc = "started" /\ processing'[i].pc = "saved")
              => \E n \in processing[i].nstop..delivered'[processing[i].session] :
                    files'[processing'[i].path]
                        = SaveAudioFile(SessionChunks(processing[i].session, n), config)]_vars


\* ---------------------------------------------------------------------
\* Two _process_recording coroutines side by side: each press that stops a
\* recording is a task of its own on the loop (_on_hotkey), so the second
\* recording can be stopped while the first one's transcription is awaited.
\* ---------------------------------------------------------------------

\* the application running, two recordings in the folder, nothing processed
InitOverlap ==
    /\ recording = FALSE
    /\ audio_frames = <<>>
    /\ audio_stream = 0
    /\ recording_thread = 0
    /\ stream = [s \in Sessions |-> "none"]
    /\ nopen = 0
    /\ delivered = [s \in Sessions |-> 0]
    /\ thread = [t \in Sessions |-> NoThread]
    /\ files = [p \in Times |-> SomeFile]
    /\ now = 0
    /\ tasks = [i \in Triggers |-> NoTask]
    /\ last = NoCall
    /\ prev = NoCall
    /\ triggers = 0
    /\ cur = 0
    /\ loop_pc = "idle"
    /\ config = DefaultConfig
    /\ hotkey_listener = "started"
    /\ running = TRUE
    /\ loop = "running"
    /\ InitProcess
    /\ client \in BOOLEAN
    /\ answer \in Texts
    /\ linesep = LF
    /\ jobs = [i \in Triggers |-> NoJob]
    /\ txt = [p \in Times |-> <<>>]
    /\ clipboard = <<>>

\* the recordings whose processing is followed
Overlapping == 1..2

\* _stop_recording: stop_recording has returned the path of the next
\* recording and _process_recording(audio_path) is called with it, the first
\* recording's before the second's
ProcessRecordingNext(i) ==
    /\ loop_pc = "idle"
    /\ jobs[i].pc = "none"
    /\ \A j \in Overlapping : j < i => jobs[j].pc # "none"
    /\ jobs' = [jobs EXCEPT ![i] = TranscribeAudio(i - 1, files[i - 1] # NoFile)]
    /\ UNCHANGED <<client, answer, linesep, txt, clipboard>>
    /\ UNCHANGED rest

\* the service: what it hears in the next recording it is sent
Hears ==
    /\ \E i \in Overlapping : jobs[i].pc = "transcribing"
    /\ \E t \in Texts : t # answer /\ answer' = t
    /\ UNCHANGED <<client, linesep, jobs, txt, clipboard>>
    /\ UNCHANGED rest

NextOverlap ==
    \/ \E i \in Overlapping : ProcessRecordingNext(i)
    \/ Hears
    \/ \E i \in Triggers : TranscribeSync(i)
    \/ \E i \in Triggers : TranscribeResume(i)
    \/ \E i \in Triggers : WriteTextFile(i)
    \/ \E i \in Triggers : SaveResume(i)
    \/ \E i \in Triggers : Copy(i)
    \/ \E i \in Triggers : CopyResume(i)
    \/ \E i \in Triggers : Paste(i)
    \/ \E i \in Triggers : PasteResume(i)

SpecOverlap == InitOverlap /\ [][NextOverlap]_vars

\* _process_recording of recording i has called copy_and_paste
Invoked(i) == jobs[i].returned /\ Truthy(jobs[i].ret)

\* C34: transcripts are pasted in the order in which their recordings were
\* stopped: when copy_and_paste is called for the first recording's
\* transcript, it has not yet been called for the second's.
C34_PasteInStopOrder ==
    [][(~Invoked(1) /\ Invoked(1)') => ~Invoked(2)]_vars

\* C35: when the paste keystroke of a copy_and_paste(t) call that returns
\* True is issued, the clipboard holds t.
C35_ClipboardHoldsTextAtPaste ==
    [][\A i \in Triggers :
          (jobs[i].pc = "pasting" /\ jobs'[i].pc = "pasted" /\ jobs'[i].paste = "ok")
              => clipboard = <<TextOf(jobs[i].ret)>>]_vars


\* ---------------------------------------------------------------------
\* config.py: the Config object and the environment behind it
\* ---------------------------------------------------------------------

\* what the environment can hold for the three audio settings
Environments ==
    [audio_channels : {DefaultChannels, DefaultChannels + 1},
     audio_sample_rate : {DefaultSampleRate, OtherSampleRate},
     audio_chunk_size : {ChunkSize, ChunkSize + 1}]

\* the application running with the settings the environment held at startup
InitEnv ==
    /\ InitRecorder
    /\ InitProcess
    /\ InitPipeline
    /\ tasks = [i \in Triggers |-> NoTask]
    /\ last = NoCall
    /\ prev = NoCall
    /\ triggers = 0
    /\ cur = 0
    /\ loop_pc = "idle"
    /\ files = [p \in Times |-> NoFile]
    /\ now = 0
    /\ config \in Environments
    /\ hotkey_listener = "started"
    /\ running = TRUE
    /\ loop = "running"

\* os.environ[name] = value, by anything in the process
Putenv ==
    /\ \E e \in Environments : e # config /\ config' = e
    /\ UNCHANGED <<recorder, device, thread, calls, triggers, cur, loop_pc, files,
                   now, app, pipeline>>

\* Config.audio_channels, Config.audio_sample_rate, Config.audio_chunk_size:
\* each read is int(os.getenv(...)) at the time of the read
ConfigGet(k) ==
    /\ seen' = [seen EXCEPT ![k] = <<config[k]>>]
    /\ UNCHANGED <<recorder, device, thread, calls, triggers, cur, loop_pc, files,
                   now, config, pipeline, hotkey_listener, running, loop, audio,
                   main_pc, exit_status, validate_config, api_key, folder, valid,
                   run_error, processing>>

NextEnv ==
    \/ Putenv
    \/ \E k \in Settings : ConfigGet(k)

SpecEnv == InitEnv /\ [][NextEnv]_vars

\* C31: two reads of the same setting through the Config object return the
\* same value, whatever happens to the environment between them.
C31_ReadsAgree ==
    [][\A k \in Settings : seen[k] # <<>> => seen'[k] = seen[k]]_vars

====
